---- MODULE Spec2Model ----
(***************************************************************************)
(* Voronoi simulated annealing: the Voronoi growth engine (voronoi.go) and *)
(* the annealing driver (simulatedAnnealing.go).                           *)
(*                                                                         *)
(* Go pointers are modelled as optionals: Nil is the nil pointer, Ptr(x)   *)
(* a pointer to x, Deref(p) the pointed value.  A Point is the record      *)
(* [X, Y, Distance, Color] of model.go, with Distance and Color optional.  *)
(*                                                                         *)
(* Temperatures are float64 values heat / maxHeat in the code, with        *)
(* maxHeat fixed for a run; the model stores the integer heat (the         *)
(* numerator), so 1.0 is maxHeat and every comparison of two temperatures  *)
(* is the comparison of their heats.                                       *)
(***************************************************************************)
EXTENDS Integers, Sequences, FiniteSets, TLC

VARIABLES
    voronoi,    \* the Voronoi struct, or NoEngine before/without construction
    sa,         \* the SimulatedAnnealing struct, or NoEngine
    outcome,    \* how the last call ended (history variable)
    args,       \* arguments of the NewVoronoi call (history variable)
    calls,      \* number of bounded calls made so far (history variable)
    commits,    \* number of Iterate() calls that committed (history variable)
    canvas,     \* the Canvas struct and what its last Update() returned,
                \* or NoCanvas when the engines run without the frame driver
    heap        \* the backing arrays of the []Point slices of the seeds, or
                \* NoHeap where the slices are modelled by their values

vars == <<voronoi, sa, outcome, args, calls, commits, canvas, heap>>

----------------------------------------------------------------------------
(* Bounds of the model *)

\* grid and seed count of the tessellation runs (SpecTessellate)
TessW == 4
TessH == 4
TessSeeds == 3

\* largest arguments of NewVoronoi and number of Perturbate calls (SpecVoronoi)
MaxW == 2
MaxH == 2
MaxSeeds == 2
MaxReduction == 2
MaxPerturb == 2

\* the values int(movement) of perturbateTint is drawn from (SpecVoronoi)
EngineTintMovements == {0, 255}

\* grid of the annealing runs and number of Iterate() calls (Spec)
AnnealW == 2
AnnealH == 2
AnnealSeeds == 1
MaxIterate == 4

\* the values int(movement) of perturbateTint is drawn from (Spec)
AnnealTintMovements == {0, 3}

\* the pixels of the uniform target images of the annealing runs (Spec)
TargetPixels == {<<0, 0, 0, 255>>}

\* how far around the current heat candidate heats are taken (Spec)
AcceptWindow == 30

\* grid of the frame-driven runs, number of frames, ticks that can pass
\* between two frames, and the largest configured durations (SpecCanvas)
CanvasW == 2
CanvasH == 1
MaxFrames == 3
MaxTick == 1
MaxDuration == 1
MaxInterval == 1

\* grid, seed count and Perturbate calls of the tessellation passes (SpecPass)
PassW == 4
PassH == 4
PassSeeds == 2
PassPerturb == 1

\* movementReductionFactor of the passes: no smaller than the grids, so that
\* int(movement) of perturbateCoordinate is 0 and the seeds keep their place
PassReduction == 10

\* the values int(movement) of perturbateTint is drawn from (SpecPass)
PassTintMovements == {255}

\* the seed positions drawn on the 10 x 10 grid (SpecPass)
CornerPositions == {<<0, 0>>, <<9, 9>>, <<2, 4>>}

\* largest side of the grids and seed count of the passes over grids of
\* every size (SpecSizes)
MaxSide == 3
SizeSeeds == 2

\* grid, seed count and number of GetSeeds/Perturbate/WithSeeds calls of the
\* runs that follow the backing arrays of the seed slices (SpecSeeds)
SliceW == 2
SliceH == 2
SliceSeeds == 2
MaxSliceCalls == 3

\* the values int(movement) of perturbateTint is drawn from (SpecSeeds)
SliceTintMovements == {255}

----------------------------------------------------------------------------
(* model.go *)

Nil == <<>>
Ptr(x) == <<x>>
Deref(p) == p[1]

NoEngine == [absent |-> TRUE]

NoCanvas == [absent |-> TRUE]

NoHeap == [absent |-> TRUE]

abs(x) == IF x < 0 THEN -x ELSE x

RGBA(r, g, b, a) == [R |-> r, G |-> g, B |-> b, A |-> a]

----------------------------------------------------------------------------
(* voronoi.go: construction *)

\* variant: the column offset is not squared
initDistances_ColumnNotSquared(width, height) ==
    [i \in 0..(3 * width + height - 1) |->
        [j \in 0..(3 * width + height - 1) |-> i * i + j]]

\* variant: the table covers the offsets inside the grid only
initDistances_GridSized(width, height) ==
    [i \in 0..(width + height - 2) |->
        [j \in 0..(width + height - 2) |-> i * i + j * j]]

\* distances[i][j] = i*i + j*j for i, j < 3*width+height
initDistances(width, height) ==
    [i \in 0..(3 * width + height - 1) |->
        [j \in 0..(3 * width + height - 1) |-> i * i + j * j]]

\* every cell of the diagram is nil
initDiagram(width, height) ==
    [i \in 0..(width - 1) |-> [j \in 0..(height - 1) |-> Nil]]

\* the seed initSeeds builds at (x, y): distance 0, black, opaque
NewSeed(x, y) ==
    [X |-> x, Y |-> y, Distance |-> Ptr(0), Color |-> Ptr(RGBA(0, 0, 0, 255))]

\* the diagram after storing the seeds[k..] in their own cells, in order
RECURSIVE StoreSeeds(_, _, _)
StoreSeeds(diagram, seeds, k) ==
    IF k > Len(seeds) THEN diagram
    ELSE StoreSeeds(
            [diagram EXCEPT ![seeds[k].X][seeds[k].Y] = Ptr(seeds[k])],
            seeds, k + 1)

\* initSeeds: positions is the sequence of the numSeeds random draws
\* <<x, y>>, x = Intn(width), y = Intn(height)
initSeeds(v, positions) ==
    LET seeds == [k \in 1..Len(positions) |->
                    NewSeed(positions[k][1], positions[k][2])]
    IN  [v EXCEPT !.seeds = seeds,
                  !.diagram = StoreSeeds(v.diagram, seeds, 1)]

initTessellation(v) ==
    [v EXCEPT !.radius = 0, !.activeSeeds = v.seeds]

\* the sequences of n positions inside the width x height grid
Placements(width, height, n) ==
    [1..n -> (0..(width - 1)) \X (0..(height - 1))]

\* Init() on the struct literal of NewVoronoi
InitEngine(width, height, numSeeds, movementReductionFactor, positions) ==
    LET v0 == [width |-> width,
               height |-> height,
               numSeeds |-> numSeeds,
               seeds |-> <<>>,
               radius |-> 0,
               activeSeeds |-> <<>>,
               distances |-> initDistances(width, height),
               movementReductionFactor |-> movementReductionFactor,
               diagram |-> initDiagram(width, height)]
    IN  initTessellation(initSeeds(v0, positions))

----------------------------------------------------------------------------
(* voronoi.go: tessellation *)

\* the eight reflections of (dx, dy), dx going down and dy up while dx >= dy
RECURSIVE Segment(_, _)
Segment(dx, dy) ==
    IF dx >= dy
    THEN << <<dx, dy>>, <<dx, -dy>>, <<-dx, dy>>, <<-dx, -dy>>,
            <<dy, dx>>, <<dy, -dx>>, <<-dy, dx>>, <<-dy, -dx>> >>
         \o Segment(dx - 1, dy + 1)
    ELSE <<>>

\* the ring of the radius already incremented by the caller
getIncrementalVectors(radius) == Segment(radius, 0)

\* the diagram after pointFromDiagram(x, y): a nil cell becomes Point{X, Y}
pointFromDiagram(diagram, x, y) ==
    IF diagram[x][y] = Nil
    THEN [diagram EXCEPT ![x][y] =
            Ptr([X |-> x, Y |-> y, Distance |-> Nil, Color |-> Nil])]
    ELSE diagram

\* variant: a point whose distance equals the candidate's is left alone
assignPointToSeed_TiesRejected(v, diagram, seed, distance, dx, dy) ==
    IF \/ seed.X + dx < 0
       \/ seed.X + dx >= v.width
       \/ seed.Y + dy < 0
       \/ seed.Y + dy >= v.height
    THEN [diagram |-> diagram, assigned |-> FALSE]
    ELSE LET d1 == pointFromDiagram(diagram, seed.X + dx, seed.Y + dy)
             p  == Deref(d1[seed.X + dx][seed.Y + dy])
         IN  IF p.Distance # Nil /\ Deref(p.Distance) <= distance
             THEN [diagram |-> d1, assigned |-> FALSE]
             ELSE [diagram |-> [d1 EXCEPT ![p.X][p.Y] =
                                  Ptr([p EXCEPT !.Color = seed.Color,
                                                !.Distance = Ptr(distance)])],
                   assigned |-> TRUE]

\* variant: the comparison is reversed, the farther seed keeps the point
assignPointToSeed_FartherWins(v, diagram, seed, distance, dx, dy) ==
    IF \/ seed.X + dx < 0
       \/ seed.X + dx >= v.width
       \/ seed.Y + dy < 0
       \/ seed.Y + dy >= v.height
    THEN [diagram |-> diagram, assigned |-> FALSE]
    ELSE LET d1 == pointFromDiagram(diagram, seed.X + dx, seed.Y + dy)
             p  == Deref(d1[seed.X + dx][seed.Y + dy])
         IN  IF p.Distance # Nil /\ Deref(p.Distance) > distance
             THEN [diagram |-> d1, assigned |-> FALSE]
             ELSE [diagram |-> [d1 EXCEPT ![p.X][p.Y] =
                                  Ptr([p EXCEPT !.Color = seed.Color,
                                                !.Distance = Ptr(distance)])],
                   assigned |-> TRUE]

\* variant: a point outside the diagram counts as assigned
assignPointToSeed_OutsideCounts(v, diagram, seed, distance, dx, dy) ==
    IF \/ seed.X + dx < 0
       \/ seed.X + dx >= v.width
       \/ seed.Y + dy < 0
       \/ seed.Y + dy >= v.height
    THEN [diagram |-> diagram, assigned |-> TRUE]
    ELSE LET d1 == pointFromDiagram(diagram, seed.X + dx, seed.Y + dy)
             p  == Deref(d1[seed.X + dx][seed.Y + dy])
         IN  IF p.Distance # Nil /\ Deref(p.Distance) < distance
             THEN [diagram |-> d1, assigned |-> FALSE]
             ELSE [diagram |-> [d1 EXCEPT ![p.X][p.Y] =
                                  Ptr([p EXCEPT !.Color = seed.Color,
                                                !.Distance = Ptr(distance)])],
                   assigned |-> TRUE]

\* [diagram, assigned]: the diagram after the attempt and the returned bool
assignPointToSeed(v, diagram, seed, distance, dx, dy) ==
    IF \/ seed.X + dx < 0
       \/ seed.X + dx >= v.width
       \/ seed.Y + dy < 0
       \/ seed.Y + dy >= v.height
    THEN [diagram |-> diagram, assigned |-> FALSE]
    ELSE LET d1 == pointFromDiagram(diagram, seed.X + dx, seed.Y + dy)
             p  == Deref(d1[seed.X + dx][seed.Y + dy])
         IN  IF p.Distance # Nil /\ Deref(p.Distance) < distance
             THEN [diagram |-> d1, assigned |-> FALSE]
             ELSE [diagram |-> [d1 EXCEPT ![p.X][p.Y] =
                                  Ptr([p EXCEPT !.Color = seed.Color,
                                                !.Distance = Ptr(distance)])],
                   assigned |-> TRUE]

\* variant: stillActive is the result of the last attempt alone
RECURSIVE ExtendSeed_LastVectorDecides(_, _, _, _, _, _)
ExtendSeed_LastVectorDecides(v, diagram, seed, vectors, k, stillActive) ==
    IF k > Len(vectors) THEN [diagram |-> diagram, stillActive |-> stillActive]
    ELSE LET dx == vectors[k][1]
             dy == vectors[k][2]
             r  == assignPointToSeed(v, diagram, seed,
                                     v.distances[abs(dx)][abs(dy)], dx, dy)
         IN  IF r.assigned
             THEN ExtendSeed_LastVectorDecides(v, r.diagram, seed, vectors,
                                               k + 1, TRUE)
             ELSE ExtendSeed_LastVectorDecides(v, r.diagram, seed, vectors,
                                               k + 1, FALSE)

\* the loop over the incremental vectors for one seed, from the k-th on
RECURSIVE ExtendSeed(_, _, _, _, _, _)
ExtendSeed(v, diagram, seed, vectors, k, stillActive) ==
    IF k > Len(vectors) THEN [diagram |-> diagram, stillActive |-> stillActive]
    ELSE LET dx == vectors[k][1]
             dy == vectors[k][2]
             r  == assignPointToSeed(v, diagram, seed,
                                     v.distances[abs(dx)][abs(dy)], dx, dy)
         IN  IF r.assigned
             THEN ExtendSeed(v, r.diagram, seed, vectors, k + 1, TRUE)
             ELSE ExtendSeed(v, r.diagram, seed, vectors, k + 1, stillActive)

\* the loop over the active seeds, from the k-th on
RECURSIVE ExtendSeeds(_, _, _, _, _)
ExtendSeeds(v, diagram, vectors, k, stillActiveSeeds) ==
    IF k > Len(v.activeSeeds)
    THEN [diagram |-> diagram, stillActiveSeeds |-> stillActiveSeeds]
    ELSE LET seed == v.activeSeeds[k]
             r == ExtendSeed(v, diagram, seed, vectors, 1, FALSE)
         IN  IF r.stillActive
             THEN ExtendSeeds(v, r.diagram, vectors, k + 1,
                              Append(stillActiveSeeds, seed))
             ELSE ExtendSeeds(v, r.diagram, vectors, k + 1, stillActiveSeeds)

\* one pass of the body of the loop of Tessellate
TessellateRound(v) ==
    LET radius == v.radius + 1
        r == ExtendSeeds([v EXCEPT !.radius = radius], v.diagram,
                         getIncrementalVectors(radius), 1, <<>>)
    IN  [v EXCEPT !.radius = radius,
                  !.diagram = r.diagram,
                  !.activeSeeds = r.stillActiveSeeds]

RECURSIVE Tessellate(_)
Tessellate(v) ==
    IF Len(v.activeSeeds) > 0 THEN Tessellate(TessellateRound(v)) ELSE v

----------------------------------------------------------------------------
(* voronoi.go: seeds, perturbation, rendering *)

WithSeeds(v, seeds) == [v EXCEPT !.seeds = seeds]

GetSeeds(v) == v.seeds

\* the draws of v.r.Intn(2)*2 - 1
Multipliers == {-1, 1}

\* the values int(movement) can take for movement =
\* Float64() * maxValue / movementReductionFactor, Float64() in [0, 1)
CoordinateMovements(v, maxValue) ==
    0..((maxValue - 1) \div v.movementReductionFactor)

\* variant: the new coordinate is not clamped into the grid
perturbateCoordinate_Unclamped(currentCoordinate, maxValue, movement, multiplier) ==
    currentCoordinate + multiplier * movement

\* movement is int(movement) of the code, the multiplier is -1 or 1
perturbateCoordinate(currentCoordinate, maxValue, movement, multiplier) ==
    LET newCoordinate == currentCoordinate + multiplier * movement
    IN  IF newCoordinate >= maxValue THEN maxValue - 1
        ELSE IF newCoordinate < 0 THEN 0
        ELSE newCoordinate

perturbateTint(currentTint, maxValue, movement, multiplier) ==
    LET newTint == currentTint + multiplier * movement
    IN  IF newTint >= maxValue THEN maxValue - 1
        ELSE IF newTint < 0 THEN 0
        ELSE newTint

\* the random draws of one Perturbate call: the choice v.r.Intn(3), and a
\* movement and a multiplier for each coordinate or tint the choice perturbates
NoDraw == [movement |-> 0, multiplier |-> 1]

Draw(movements) == [movement : movements, multiplier : Multipliers]

Draws(v, tintMovements) ==
    [choice : {0}, x : {NoDraw}, y : {NoDraw},
     r : {NoDraw}, g : {NoDraw}, b : {NoDraw}]
    \cup
    [choice : {1},
     x : Draw(CoordinateMovements(v, v.width)),
     y : Draw(CoordinateMovements(v, v.height)),
     r : {NoDraw}, g : {NoDraw}, b : {NoDraw}]
    \cup
    [choice : {2}, x : {NoDraw}, y : {NoDraw},
     r : Draw(tintMovements), g : Draw(tintMovements), b : Draw(tintMovements)]

\* the two flags Perturbate derives from choice := v.r.Intn(3)
willPerturbateCoords(choice) == choice = 1 \/ choice = 3

willPerturbateColor(choice) == choice = 2 \/ choice = 3

\* seedIndex is the Go index (from 0) of the seed to perturbate
Perturbate(v, seedIndex, d) ==
    LET toPerturbate == v.seeds[seedIndex + 1]
        color == Deref(toPerturbate.Color)
        newX == IF willPerturbateCoords(d.choice)
                THEN perturbateCoordinate(toPerturbate.X, v.width,
                                          d.x.movement, d.x.multiplier)
                ELSE toPerturbate.X
        newY == IF willPerturbateCoords(d.choice)
                THEN perturbateCoordinate(toPerturbate.Y, v.height,
                                          d.y.movement, d.y.multiplier)
                ELSE toPerturbate.Y
        newColor ==
            IF willPerturbateCoords(d.choice) THEN toPerturbate.Color
            ELSE IF willPerturbateColor(d.choice)
            THEN Ptr(RGBA(
                    perturbateTint(color.R, 256, d.r.movement, d.r.multiplier),
                    perturbateTint(color.G, 256, d.g.movement, d.g.multiplier),
                    perturbateTint(color.B, 256, d.b.movement, d.b.multiplier),
                    255))
            ELSE toPerturbate.Color
        newSeed == [X |-> newX, Y |-> newY, Distance |-> Nil, Color |-> newColor]
        newSeeds == [v.seeds EXCEPT ![seedIndex + 1] = newSeed]
    IN  initTessellation(
            [v EXCEPT !.seeds = newSeeds,
                      !.diagram = initDiagram(v.width, v.height)])

\* The same calls on the backing arrays.  A heap is [arrays, seeds, held]:
\* the arrays allocated so far, the index of the array v.seeds points to, and
\* the indices of the arrays of the slices callers obtained through GetSeeds().

\* the heap NewVoronoi leaves: initSeeds appends the seeds to a new slice
NewHeap(seeds) == [arrays |-> <<seeds>>, seeds |-> 1, held |-> {}]

\* variant: newSeeds := v.seeds, the slice header is copied but not the array
appendSeeds_SameArray(h) == [heap |-> h, newSeeds |-> h.seeds]

\* newSeeds := append([]Point{}, v.seeds...): a new array holding a copy
appendSeeds(h) ==
    [heap |-> [h EXCEPT !.arrays = Append(@, h.arrays[h.seeds])],
     newSeeds |-> Len(h.arrays) + 1]

\* the heap after Perturbate: the copy, newSeeds[seedIndex] = newSeed and
\* v.seeds = newSeeds
PerturbateSeeds(h, seedIndex, newSeed) ==
    LET a == appendSeeds(h)
    IN  [a.heap EXCEPT !.arrays[a.newSeeds][seedIndex + 1] = newSeed,
                       !.seeds = a.newSeeds]

\* the heap after a caller keeps the slice GetSeeds() returns
GetSeedsHeld(h) == [h EXCEPT !.held = @ \cup {h.seeds}]

\* the heap after WithSeeds(seeds), seeds being the slice of array ref
WithSeedsHeld(h, ref) == [h EXCEPT !.seeds = ref]

\* variant: the pixels of the seeds are not overwritten
PixelByte_SeedsNotBlanked(v, q) ==
    LET pos == q \div 4
        cell == v.diagram[pos % v.width][pos \div v.width]
    IN  IF cell # Nil /\ Deref(cell).Color # Nil
        THEN LET color == Deref(Deref(cell).Color)
             IN  CASE q % 4 = 0 -> color.R
                   [] q % 4 = 1 -> color.G
                   [] q % 4 = 2 -> color.B
                   [] q % 4 = 3 -> color.A
        ELSE 0

\* the byte at index q of the buffer: pixel (i, j) is at (j*width + i)*4,
\* and the pixels of the seeds are overwritten with zeroes
PixelByte(v, q) ==
    LET pos == q \div 4
        i == pos % v.width
        j == pos \div v.width
        c == q % 4
        cell == v.diagram[i][j]
    IN  IF \E k \in 1..Len(v.seeds) : v.seeds[k].X = i /\ v.seeds[k].Y = j
        THEN 0
        ELSE IF cell # Nil /\ Deref(cell).Color # Nil
        THEN LET color == Deref(Deref(cell).Color)
             IN  CASE c = 0 -> color.R
                   [] c = 1 -> color.G
                   [] c = 2 -> color.B
                   [] c = 3 -> color.A
        ELSE 0

ToPixels(v) == [q \in 0..(v.width * v.height * 4 - 1) |-> PixelByte(v, q)]

----------------------------------------------------------------------------
(* Tessellation of a freshly constructed engine, one round per step *)

InitTessellate ==
    /\ \E n \in 1..TessSeeds :
        \E positions \in Placements(TessW, TessH, n) :
            voronoi = InitEngine(TessW, TessH, n, 1, positions)
    /\ sa = NoEngine
    /\ outcome = "constructed"
    /\ args = [width |-> TessW, height |-> TessH, numSeeds |-> voronoi.numSeeds]
    /\ calls = 0
    /\ commits = 0
    /\ canvas = NoCanvas
    /\ heap = NoHeap

TessellateStep ==
    /\ Len(voronoi.activeSeeds) > 0
    /\ voronoi' = TessellateRound(voronoi)
    /\ outcome' = IF Len(voronoi'.activeSeeds) > 0 THEN "tessellating"
                  ELSE "tessellated"
    /\ UNCHANGED <<sa, args, calls, commits, canvas, heap>>

NextTessellate == TessellateStep

SpecTessellate == InitTessellate /\ [][NextTessellate]_vars

----------------------------------------------------------------------------
(* The engine on its own: NewVoronoi, then Tessellate and Perturbate calls *)

\* variant: as many seeds as pixels is refused too
NewVoronoiResult_RefusesFullGrid(width, height, numSeeds) ==
    IF numSeeds >= width * height THEN "error"
    ELSE IF 3 * width + height < 0 \/ width < 0 THEN "panic"
    ELSE IF width > 0 /\ height < 0 THEN "panic"
    ELSE IF numSeeds > 0 /\ (width <= 0 \/ height <= 0) THEN "panic"
    ELSE "constructed"

\* how NewVoronoi(width, height, numSeeds, ...) ends: the error return, a
\* run-time panic (make with a negative length, Intn with a non-positive
\* argument), or the engine
NewVoronoiResult(width, height, numSeeds) ==
    IF numSeeds > width * height THEN "error"
    ELSE IF 3 * width + height < 0 \/ width < 0 THEN "panic"
    ELSE IF width > 0 /\ height < 0 THEN "panic"
    ELSE IF numSeeds > 0 /\ (width <= 0 \/ height <= 0) THEN "panic"
    ELSE "constructed"

InitVoronoi ==
    /\ voronoi = NoEngine
    /\ sa = NoEngine
    /\ outcome = "none"
    /\ args = [width |-> 0, height |-> 0, numSeeds |-> 0]
    /\ calls = 0
    /\ commits = 0
    /\ canvas = NoCanvas
    /\ heap = NoHeap

NewVoronoiFails(result) ==
    /\ outcome = "none"
    /\ \E width \in -1..MaxW, height \in -1..MaxH, numSeeds \in -1..MaxSeeds :
        /\ NewVoronoiResult(width, height, numSeeds) = result
        /\ args' = [width |-> width, height |-> height, numSeeds |-> numSeeds]
    /\ voronoi' = NoEngine
    /\ outcome' = result
    /\ UNCHANGED <<sa, calls, commits, canvas, heap>>

NewVoronoiError == NewVoronoiFails("error")

NewVoronoiPanic == NewVoronoiFails("panic")

NewVoronoi ==
    /\ outcome = "none"
    /\ \E width \in -1..MaxW, height \in -1..MaxH, numSeeds \in -1..MaxSeeds,
          movementReductionFactor \in 1..MaxReduction :
        /\ NewVoronoiResult(width, height, numSeeds) = "constructed"
        /\ args' = [width |-> width, height |-> height, numSeeds |-> numSeeds]
        /\ \E positions \in Placements(width, height,
                                       IF numSeeds > 0 THEN numSeeds ELSE 0) :
            voronoi' = InitEngine(width, height, numSeeds,
                                  movementReductionFactor, positions)
    /\ outcome' = "constructed"
    /\ UNCHANGED <<sa, calls, commits, canvas, heap>>

Constructed == voronoi # NoEngine

TessellateCall ==
    /\ Constructed
    /\ voronoi' = Tessellate(voronoi)
    /\ outcome' = "tessellated"
    /\ UNCHANGED <<sa, args, calls, commits, canvas, heap>>

PerturbateCall ==
    /\ Constructed
    /\ calls < MaxPerturb
    /\ \E seedIndex \in 0..(Len(voronoi.seeds) - 1) :
        \E d \in Draws(voronoi, EngineTintMovements) :
            voronoi' = Perturbate(voronoi, seedIndex, d)
    /\ outcome' = "perturbed"
    /\ calls' = calls + 1
    /\ UNCHANGED <<sa, args, commits, canvas, heap>>

NextVoronoi ==
    \/ NewVoronoiError
    \/ NewVoronoiPanic
    \/ NewVoronoi
    \/ TessellateCall
    \/ PerturbateCall

SpecVoronoi == InitVoronoi /\ [][NextVoronoi]_vars

----------------------------------------------------------------------------
(* simulatedAnnealing.go *)

Header == [line |-> "elapsed_seconds,temperature"]

\* a data row "<elapsed_seconds>,<temperature>"; wall-clock time is not modelled
Row(temperature) == [temperature |-> temperature]

\* the width x height image whose pixels are all <<r, g, b, a>>
UniformImage(width, height, pixel) ==
    [Bytes |-> [q \in 0..(width * height * 4 - 1) |-> pixel[(q % 4) + 1]],
     Width |-> width,
     Height |-> height]

\* variant: the best temperature starts at 0.0
NewSimulatedAnnealing_BestZero(targetImage) ==
    LET maxHeat == 4 * 255 * targetImage.Width * targetImage.Height
    IN  [targetImage |-> targetImage,
         maxHeat |-> maxHeat,
         bestTemperature |-> 0,
         bestSolution |-> <<>>,
         temperature |-> maxHeat,
         statFile |-> <<Header>>]

\* the struct NewSimulatedAnnealing returns after writing the header;
\* temperature and bestTemperature 1.0 are maxHeat / maxHeat
NewSimulatedAnnealing(targetImage) ==
    LET maxHeat == 4 * 255 * targetImage.Width * targetImage.Height
    IN  [targetImage |-> targetImage,
         maxHeat |-> maxHeat,
         bestTemperature |-> maxHeat,
         bestSolution |-> <<>>,
         temperature |-> maxHeat,
         statFile |-> <<Header>>]

\* floor(temperature * len(currentSeeds) / 3), at least 1
Perturbations(s, currentSeeds) ==
    LET perturbations == (s.temperature * Len(currentSeeds)) \div (3 * s.maxHeat)
    IN  IF perturbations = 0 THEN 1 ELSE perturbations

\* the engines n Perturbate calls can leave, each on a random seed
RECURSIVE PerturbateTimes(_, _, _)
PerturbateTimes(engines, n, tintMovements) ==
    IF n = 0 THEN engines
    ELSE PerturbateTimes(
            UNION {{Perturbate(v, seedIndex, d) :
                        seedIndex \in 0..(Len(v.seeds) - 1),
                        d \in Draws(v, tintMovements)} : v \in engines},
            n - 1, tintMovements)

\* variant: the differences are summed with their sign
RECURSIVE Heat_Signed(_, _, _)
Heat_Signed(target, current, q) ==
    IF q \notin DOMAIN target THEN 0
    ELSE (target[q] - current[q]) + Heat_Signed(target, current, q + 1)

\* the sum of |target - current| over the bytes from index q on
RECURSIVE Heat(_, _, _)
Heat(target, current, q) ==
    IF q \notin DOMAIN target THEN 0
    ELSE abs(target[q] - current[q]) + Heat(target, current, q + 1)

\* the heat; the temperature returned by the code is heat / maxHeat
computeTemperature(s, v) == Heat(s.targetImage.Bytes, ToPixels(v), 0)

\* float64 arithmetic of the sigmoid: 1 + Exp(-10*percDiff) rounds to 1, and
\* the sigmoid to 1, once 10*percDiff exceeds 53*ln(2) = 36.74; in units of
\* 1/1000 of a percent of the current temperature
SigmoidSaturation == 3674

\* the draws of sa.r.Float64() that decide the comparison rand > sigmoid:
\* the least value 0 and the greatest value below 1
Rands == {"least", "greatest"}

\* variant: an equal temperature goes to the random draw too
isAcceptableTemperature_StrictlyLower(s, temperature, rand) ==
    IF temperature < s.temperature THEN TRUE
    ELSE /\ rand = "greatest"
         /\ 100000 * (temperature - s.temperature)
                < SigmoidSaturation * s.temperature

\* rand > sigmoid fails for rand = 0, and holds for the greatest rand
\* exactly when the sigmoid is below 1
isAcceptableTemperature(s, temperature, rand) ==
    IF temperature <= s.temperature THEN TRUE
    ELSE /\ rand = "greatest"
         /\ 100000 * (temperature - s.temperature)
                < SigmoidSaturation * s.temperature

\* variant: the threshold is a fifth of the best temperature
DriftExceeded_Fifth(s, newTemperature) ==
    5 * (newTemperature - s.bestTemperature) > s.bestTemperature

\* (newTemperature - bestTemperature) > bestTemperature / 10
DriftExceeded(s, newTemperature) ==
    10 * (newTemperature - s.bestTemperature) > s.bestTemperature

\* variant: the row is written twice
logIteration_Twice(s) ==
    [s EXCEPT !.statFile = Append(Append(s.statFile, Row(s.temperature)),
                                  Row(s.temperature))]

logIteration(s) == [s EXCEPT !.statFile = Append(s.statFile, Row(s.temperature))]

\* variant: the seeds taken on entry are not restored
RejectIteration_KeepsPerturbed(v, s, currentSeeds) ==
    [voronoi |-> v, sa |-> s, outcome |-> "reject"]

\* the return after a rejected temperature
RejectIteration(v, s, currentSeeds) ==
    [voronoi |-> WithSeeds(v, currentSeeds), sa |-> s, outcome |-> "reject"]

\* variant: the temperature is reset but the seeds are not
RollbackIteration_KeepsSeeds(v, s) ==
    [voronoi |-> v,
     sa |-> [s EXCEPT !.temperature = s.bestTemperature],
     outcome |-> "rollback"]

\* variant: the temperature is not reset with the seeds
RollbackIteration_KeepsTemperature(v, s) ==
    [voronoi |-> WithSeeds(v, s.bestSolution), sa |-> s, outcome |-> "rollback"]

\* the reset to the best solution so far
RollbackIteration(v, s) ==
    [voronoi |-> WithSeeds(v, s.bestSolution),
     sa |-> [s EXCEPT !.temperature = s.bestTemperature],
     outcome |-> "rollback"]

\* variant: the best solution is replaced on an equal temperature too
CommitIteration_BestOnTie(v, s, newTemperature, written) ==
    LET s1 == [s EXCEPT !.temperature = newTemperature]
        s2 == logIteration(s1)
    IN  IF ~written THEN [voronoi |-> v, sa |-> s1, outcome |-> "ioerror"]
        ELSE IF s2.temperature <= s2.bestTemperature
        THEN [voronoi |-> v,
              sa |-> [s2 EXCEPT !.bestTemperature = s2.temperature,
                                !.bestSolution = GetSeeds(v)],
              outcome |-> "commit"]
        ELSE [voronoi |-> v, sa |-> s2, outcome |-> "commit"]

\* the update of the state; written is FALSE when the write to statFile fails
CommitIteration(v, s, newTemperature, written) ==
    LET s1 == [s EXCEPT !.temperature = newTemperature]
        s2 == logIteration(s1)
    IN  IF ~written THEN [voronoi |-> v, sa |-> s1, outcome |-> "ioerror"]
        ELSE IF s2.temperature < s2.bestTemperature
        THEN [voronoi |-> v,
              sa |-> [s2 EXCEPT !.bestTemperature = s2.temperature,
                                !.bestSolution = GetSeeds(v)],
              outcome |-> "commit"]
        ELSE [voronoi |-> v, sa |-> s2, outcome |-> "commit"]

\* Iterate() after computeTemperature(): currentSeeds is the copy taken on
\* entry, w the engine after the Perturbate calls and Tessellate(), rand and
\* written the draws of the environment
Iterate(currentSeeds, s, w, newTemperature, rand, written) ==
    IF ~isAcceptableTemperature(s, newTemperature, rand)
    THEN RejectIteration(w, s, currentSeeds)
    ELSE IF DriftExceeded(s, newTemperature)
    THEN RollbackIteration(w, s)
    ELSE CommitIteration(w, s, newTemperature, written)

----------------------------------------------------------------------------
(* The annealing run: constructed engines, then Iterate() calls *)

\* the target images of the runs of engine v: the uniform ones, and the
\* image that the seeds v starts with render
TargetImages(v) ==
    {UniformImage(v.width, v.height, pixel) : pixel \in TargetPixels}
    \cup {[Bytes |-> ToPixels(Tessellate(v)),
           Width |-> v.width,
           Height |-> v.height]}

Init ==
    /\ \E numSeeds \in 1..AnnealSeeds :
        /\ NewVoronoiResult(AnnealW, AnnealH, numSeeds) = "constructed"
        /\ args = [width |-> AnnealW, height |-> AnnealH, numSeeds |-> numSeeds]
        /\ \E positions \in Placements(AnnealW, AnnealH, numSeeds) :
            voronoi = InitEngine(AnnealW, AnnealH, numSeeds, 1, positions)
        /\ \E targetImage \in TargetImages(voronoi) :
            sa = NewSimulatedAnnealing(targetImage)
    /\ outcome = "constructed"
    /\ calls = 0
    /\ commits = 0
    /\ canvas = NoCanvas
    /\ heap = NoHeap

\* the effect of Iterate() on the engines; ioerror is the error it returns
\* when the write to statFile fails
IterateEffect ==
    \E perturbated \in PerturbateTimes({voronoi},
                            Perturbations(sa, GetSeeds(voronoi)),
                            AnnealTintMovements) :
        \E w \in {Tessellate(perturbated)} :
        \E newTemperature \in {computeTemperature(sa, w)} :
        \E rand \in Rands, written \in BOOLEAN :
        \E r \in {Iterate(GetSeeds(voronoi), sa, w, newTemperature,
                          rand, written)} :
            /\ voronoi' = r.voronoi
            /\ sa' = r.sa
            /\ outcome' = r.outcome
            /\ commits' = IF r.outcome = "commit" THEN commits + 1
                          ELSE commits

\* one call of Iterate(); a failed write to statFile ends the run
IterateCall ==
    /\ outcome # "ioerror"
    /\ calls < MaxIterate
    /\ IterateEffect
    /\ calls' = calls + 1
    /\ UNCHANGED <<args, canvas, heap>>

Next == IterateCall

Spec == Init /\ [][Next]_vars

(***************************************************************************)
(* main.go: the Canvas frame driver.  Time is counted in ticks since       *)
(* simulationStart; time.Since() is read once per frame.                   *)
(***************************************************************************)

\* NewCanvas(): the driver starts running, both timers start now
NewCanvas(simulationDuration, snapshotsInterval) ==
    [gameRunning        |-> TRUE,
     simulationDuration |-> simulationDuration,
     elapsed            |-> 0,
     lastSnapshot       |-> 0,
     snapshotsInterval  |-> snapshotsInterval,
     returned           |-> "none"]

\* savePNG(): "skipped" while the last snapshot is too recent, otherwise the
\* file is created and encoded (created = FALSE is the error it returns)
savePNG(g, now, created) ==
    IF ~(now - g.lastSnapshot > g.snapshotsInterval) THEN "skipped"
    ELSE IF created THEN "saved"
    ELSE "failed"

\* Update() with the pause test dropped
Update_IgnoresPause(g, now, keyJustPressed, created) ==
    IF now > g.simulationDuration
    THEN [canvas  |-> [g EXCEPT !.elapsed = now,
                                !.returned = "SimulationCompleted"],
          iterate |-> FALSE]
    ELSE LET gameRunning == IF keyJustPressed THEN ~g.gameRunning
                            ELSE g.gameRunning
             snapshot == savePNG(g, now, created)
         IN  IF snapshot = "failed"
             THEN [canvas  |-> [g EXCEPT !.elapsed = now,
                                         !.gameRunning = gameRunning,
                                         !.returned = "panic"],
                   iterate |-> FALSE]
             ELSE [canvas  |-> [g EXCEPT !.elapsed = now,
                                         !.gameRunning = gameRunning,
                                         !.lastSnapshot =
                                             IF snapshot = "saved" THEN now
                                             ELSE @,
                                         !.returned = "nil"],
                   iterate |-> TRUE]

\* Update() up to its call of Iterate(): the Canvas it leaves, what it
\* returns when it returns before that call, and whether it makes the call
Update(g, now, keyJustPressed, created) ==
    IF now > g.simulationDuration
    THEN [canvas  |-> [g EXCEPT !.elapsed = now,
                                !.returned = "SimulationCompleted"],
          iterate |-> FALSE]
    ELSE LET gameRunning == IF keyJustPressed THEN ~g.gameRunning
                            ELSE g.gameRunning
             snapshot == savePNG(g, now, created)
         IN  IF ~gameRunning
             THEN [canvas  |-> [g EXCEPT !.elapsed = now,
                                         !.gameRunning = gameRunning,
                                         !.returned = "nil"],
                   iterate |-> FALSE]
             ELSE IF snapshot = "failed"
             THEN [canvas  |-> [g EXCEPT !.elapsed = now,
                                         !.gameRunning = gameRunning,
                                         !.returned = "panic"],
                   iterate |-> FALSE]
             ELSE [canvas  |-> [g EXCEPT !.elapsed = now,
                                         !.gameRunning = gameRunning,
                                         !.lastSnapshot =
                                             IF snapshot = "saved" THEN now
                                             ELSE @,
                                         !.returned = "nil"],
                   iterate |-> TRUE]

\* runSimulatedAnnealing(): the engines and the Canvas, before the first frame
InitCanvas ==
    /\ args = [width |-> CanvasW, height |-> CanvasH, numSeeds |-> 1]
    /\ \E positions \in Placements(CanvasW, CanvasH, 1) :
        voronoi = InitEngine(CanvasW, CanvasH, 1, 1, positions)
    /\ \E targetImage \in TargetImages(voronoi) :
        sa = NewSimulatedAnnealing(targetImage)
    /\ \E simulationDuration \in 0..MaxDuration,
          snapshotsInterval \in 0..MaxInterval :
        canvas = NewCanvas(simulationDuration, snapshotsInterval)
    /\ outcome = "constructed"
    /\ calls = 0
    /\ commits = 0
    /\ heap = NoHeap

\* one frame: Update() and, when it gets that far, the Iterate() it calls.
\* A panic or an error other than SimulationCompleted ends the process; the
\* frames after SimulationCompleted are calls of the exported method.
UpdateCall ==
    /\ calls < MaxFrames
    /\ canvas.returned \notin {"panic", "error"}
    /\ \E tick \in 0..MaxTick, keyJustPressed \in BOOLEAN, created \in BOOLEAN :
        \E u \in {Update(canvas, canvas.elapsed + tick,
                         keyJustPressed, created)} :
            IF u.iterate
            THEN /\ IterateEffect
                 /\ canvas' = [u.canvas EXCEPT !.returned =
                                  IF outcome' = "ioerror" THEN "error"
                                  ELSE "nil"]
            ELSE /\ canvas' = u.canvas
                 /\ UNCHANGED <<voronoi, sa, outcome, commits>>
    /\ calls' = calls + 1
    /\ UNCHANGED <<args, heap>>

NextCanvas == UpdateCall

SpecCanvas == InitCanvas /\ [][NextCanvas]_vars

----------------------------------------------------------------------------
(* Tessellation passes after construction and after Perturbate, one round *)
(* per step, on every placement of the small grid and on the 10 x 10 grid  *)

\* the arguments of NewVoronoi and the positions initSeeds draws
PassEngines ==
    {[width |-> PassW, height |-> PassH, positions |-> positions] :
        positions \in UNION {Placements(PassW, PassH, n) : n \in 1..PassSeeds}}
    \cup
    {[width |-> 10, height |-> 10, positions |-> positions] :
        positions \in [1..2 -> CornerPositions]}

InitPass ==
    /\ \E e \in PassEngines :
        /\ voronoi = InitEngine(e.width, e.height, Len(e.positions),
                                PassReduction, e.positions)
        /\ args = [width |-> e.width, height |-> e.height,
                   numSeeds |-> Len(e.positions)]
    /\ sa = NoEngine
    /\ outcome = "constructed"
    /\ calls = 0
    /\ commits = 0
    /\ canvas = NoCanvas
    /\ heap = NoHeap

\* a Perturbate call between two passes
PerturbateStep ==
    /\ outcome # "tessellating"
    /\ calls < PassPerturb
    /\ \E seedIndex \in 0..(Len(voronoi.seeds) - 1) :
        \E d \in Draws(voronoi, PassTintMovements) :
            voronoi' = Perturbate(voronoi, seedIndex, d)
    /\ outcome' = "perturbed"
    /\ calls' = calls + 1
    /\ UNCHANGED <<sa, args, commits, canvas, heap>>

NextPass ==
    \/ TessellateStep
    \/ PerturbateStep

SpecPass == InitPass /\ [][NextPass]_vars

\* the passes over the grids of every size from 1 x 1 on: engines whose
\* seeds Perturbate can move anywhere in the grid
InitSizes ==
    /\ \E width \in 1..MaxSide, height \in 1..MaxSide :
        \E numSeeds \in 1..SizeSeeds :
            /\ NewVoronoiResult(width, height, numSeeds) = "constructed"
            /\ args = [width |-> width, height |-> height,
                       numSeeds |-> numSeeds]
            /\ \E positions \in Placements(width, height, numSeeds) :
                voronoi = InitEngine(width, height, numSeeds, 1, positions)
    /\ sa = NoEngine
    /\ outcome = "constructed"
    /\ calls = 0
    /\ commits = 0
    /\ canvas = NoCanvas
    /\ heap = NoHeap

SpecSizes == InitSizes /\ [][NextPass]_vars

----------------------------------------------------------------------------
(* The calls Iterate() makes on the seeds of the engine, on the backing
   arrays: GetSeeds(), Perturbate() and WithSeeds() in any order *)

\* the engine whose slices are read from the heap
OnHeap(v, h) ==
    [v EXCEPT !.seeds = h.arrays[h.seeds],
              !.activeSeeds = IF v.activeSeeds = v.seeds
                              THEN h.arrays[h.seeds] ELSE @]

InitSeeds ==
    /\ \E numSeeds \in 1..SliceSeeds :
        /\ args = [width |-> SliceW, height |-> SliceH, numSeeds |-> numSeeds]
        /\ \E positions \in Placements(SliceW, SliceH, numSeeds) :
            voronoi = InitEngine(SliceW, SliceH, numSeeds, 1, positions)
    /\ heap = NewHeap(voronoi.seeds)
    /\ sa = NoEngine
    /\ outcome = "constructed"
    /\ calls = 0
    /\ commits = 0
    /\ canvas = NoCanvas

\* currentSeeds := sa.voronoi.GetSeeds() or sa.bestSolution = GetSeeds()
GetSeedsStep ==
    /\ calls < MaxSliceCalls
    /\ heap' = GetSeedsHeld(heap)
    /\ outcome' = "held"
    /\ calls' = calls + 1
    /\ UNCHANGED <<voronoi, sa, args, commits, canvas>>

PerturbateSeedsStep ==
    /\ calls < MaxSliceCalls
    /\ \E seedIndex \in 0..(Len(voronoi.seeds) - 1) :
        \E d \in Draws(voronoi, SliceTintMovements) :
        \E p \in {Perturbate(voronoi, seedIndex, d)} :
            /\ heap' = PerturbateSeeds(heap, seedIndex, p.seeds[seedIndex + 1])
            /\ voronoi' = OnHeap(p, heap')
    /\ outcome' = "perturbed"
    /\ calls' = calls + 1
    /\ UNCHANGED <<sa, args, commits, canvas>>

\* sa.voronoi.WithSeeds(currentSeeds) or WithSeeds(sa.bestSolution)
WithSeedsStep ==
    /\ calls < MaxSliceCalls
    /\ \E ref \in heap.held :
        /\ heap' = WithSeedsHeld(heap, ref)
        /\ voronoi' = WithSeeds(voronoi, heap.arrays[ref])
    /\ outcome' = "restored"
    /\ calls' = calls + 1
    /\ UNCHANGED <<sa, args, commits, canvas>>

NextSeeds ==
    \/ GetSeedsStep
    \/ PerturbateSeedsStep
    \/ WithSeedsStep

SpecSeeds == InitSeeds /\ [][NextSeeds]_vars

----------------------------------------------------------------------------
(* Claims *)

SquaredDistance(x, y, s) == (x - s.X) * (x - s.X) + (y - s.Y) * (y - s.Y)

IsSeedPosition(v, x, y) == \E k \in 1..Len(v.seeds) : v.seeds[k].X = x /\ v.seeds[k].Y = y

\* the recorded distance of cell (x, y) is the distance to its nearest seed
NearestRecorded(v, x, y) ==
    /\ v.diagram[x][y] # Nil
    /\ Deref(v.diagram[x][y]).Distance # Nil
    /\ \A k \in 1..Len(v.seeds) :
         Deref(Deref(v.diagram[x][y]).Distance) <= SquaredDistance(x, y, v.seeds[k])
    /\ \E k \in 1..Len(v.seeds) :
         Deref(Deref(v.diagram[x][y]).Distance) = SquaredDistance(x, y, v.seeds[k])

\* C1: when Tessellate() has completed, every pixel that is not a seed
\* position records the squared distance to its nearest seed.
C1_NearestSeedDistance ==
    outcome = "tessellated" =>
        \A x \in 0..(voronoi.width - 1) : \A y \in 0..(voronoi.height - 1) :
            ~IsSeedPosition(voronoi, x, y) => NearestRecorded(voronoi, x, y)

\* C2: an Iterate() whose accepted temperature exceeds the best one by more
\* than a tenth of it does not commit: it returns with the seeds equal to
\* bestSolution, the temperature equal to bestTemperature, and the best
\* solution, the best temperature and the log as they were.
C2_RollbackRestoresBest ==
    [][outcome' = "rollback" =>
        /\ voronoi'.seeds = sa.bestSolution
        /\ sa'.temperature = sa.bestTemperature
        /\ sa'.bestSolution = sa.bestSolution
        /\ sa'.bestTemperature = sa.bestTemperature
        /\ sa'.statFile = sa.statFile
        /\ commits' = commits]_vars

\* a rollback from a temperature and seeds that were not the best ones
C2_Witness ==
    /\ outcome = "rollback"
    /\ commits >= 3
    /\ Len(voronoi.seeds) = voronoi.numSeeds
    /\ sa.temperature < sa.maxHeat

Rendering(v) ==
    ToPixels(Tessellate(initTessellation(
        [v EXCEPT !.diagram = initDiagram(v.width, v.height)])))

\* C4: after every Iterate(), ended by a commit, a rejection or a rollback,
\* ToPixels() is the rendering of the tessellation of the seeds held.
C4_PixelsRenderSeeds ==
    outcome \in {"commit", "reject", "rollback"} =>
        ToPixels(voronoi) = Rendering(voronoi)

\* C5: with a single seed, after Tessellate() every cell of the grid, the
\* seed's own cell included, is assigned and carries the seed's colour.
C5_SingleSeedCoversGrid ==
    (outcome = "tessellated" /\ Len(voronoi.seeds) = 1) =>
        \A x \in 0..(voronoi.width - 1), y \in 0..(voronoi.height - 1) :
            /\ voronoi.diagram[x][y] # Nil
            /\ Deref(voronoi.diagram[x][y]).Color = voronoi.seeds[1].Color

\* the 4-byte group of pixel pos (row-major) of a buffer
Group(pixels, pos) ==
    <<pixels[4 * pos], pixels[4 * pos + 1], pixels[4 * pos + 2], pixels[4 * pos + 3]>>

ColorBytes(c) == <<c.R, c.G, c.B, c.A>>

\* C6 as stated: with a single seed of colour c, after Tessellate() the
\* buffer of ToPixels() has W*H*4 bytes and every 4-byte group equals c.
C6_EveryGroupIsSeedColor ==
    (outcome = "tessellated" /\ Len(voronoi.seeds) = 1) =>
        /\ DOMAIN ToPixels(voronoi) = 0..(voronoi.width * voronoi.height * 4 - 1)
        /\ \A pos \in 0..(voronoi.width * voronoi.height - 1) :
            Group(ToPixels(voronoi), pos)
                = ColorBytes(Deref(voronoi.seeds[1].Color))

\* C6: with a single seed of colour c, after Tessellate() the buffer of
\* ToPixels() has W*H*4 bytes; the group of the seed's own pixel is
\* (0,0,0,0) and every other 4-byte group equals c.
C6_EveryOtherGroupIsSeedColor ==
    (outcome = "tessellated" /\ Len(voronoi.seeds) = 1) =>
        /\ DOMAIN ToPixels(voronoi) = 0..(voronoi.width * voronoi.height * 4 - 1)
        /\ \A pos \in 0..(voronoi.width * voronoi.height - 1) :
            Group(ToPixels(voronoi), pos)
                = IF pos = voronoi.seeds[1].Y * voronoi.width + voronoi.seeds[1].X
                  THEN <<0, 0, 0, 0>>
                  ELSE ColorBytes(Deref(voronoi.seeds[1].Color))

\* a tessellated grid of several pixels whose single seed is not black
C6_Witness ==
    /\ outcome = "tessellated"
    /\ Len(voronoi.seeds) = 1
    /\ voronoi.width * voronoi.height > 1
    /\ Deref(voronoi.seeds[1].Color) # RGBA(0, 0, 0, 255)

\* C7: every seed held lies inside the grid, has its colour channels in
\* 0..255 and alpha 255.
C7_SeedsInsideGrid ==
    Constructed =>
        \A k \in 1..Len(voronoi.seeds) :
            /\ voronoi.seeds[k].X \in 0..(voronoi.width - 1)
            /\ voronoi.seeds[k].Y \in 0..(voronoi.height - 1)
            /\ Deref(voronoi.seeds[k].Color).R \in 0..255
            /\ Deref(voronoi.seeds[k].Color).G \in 0..255
            /\ Deref(voronoi.seeds[k].Color).B \in 0..255
            /\ Deref(voronoi.seeds[k].Color).A = 255

\* seeds perturbated twice, one at the far corner and one of full tint
C7_Witness ==
    /\ outcome = "perturbed"
    /\ calls = MaxPerturb
    /\ \E k \in 1..Len(voronoi.seeds) :
        /\ voronoi.seeds[k].X = voronoi.width - 1
        /\ voronoi.seeds[k].Y = voronoi.height - 1
        /\ voronoi.width > 1
    /\ \E k \in 1..Len(voronoi.seeds) : Deref(voronoi.seeds[k].Color).R = 255

\* C8: NewVoronoi returns the error and no engine whenever numSeeds exceeds
\* width*height, before any seed is placed, and returns an engine and no
\* error whenever width and height are positive and numSeeds is in
\* 1..width*height.
C8_SeedCountGuard ==
    outcome # "none" =>
        /\ args.numSeeds > args.width * args.height =>
            (outcome = "error" /\ voronoi = NoEngine /\ calls = 0)
        /\ (args.width > 0 /\ args.height > 0 /\ args.numSeeds >= 1
                /\ args.numSeeds <= args.width * args.height) =>
            (outcome \notin {"error", "panic"} /\ Constructed
                /\ Len(voronoi.seeds) = args.numSeeds)

\* an engine holding as many seeds as the grid has pixels
C8_Witness ==
    /\ Constructed
    /\ args.numSeeds = args.width * args.height
    /\ args.numSeeds > 1

\* C9: NewVoronoi with a non-positive width or height returns the error and
\* no engine, whatever numSeeds is.
C9_NonPositiveSizeIsError ==
    (outcome # "none" /\ (args.width <= 0 \/ args.height <= 0)) =>
        (outcome = "error" /\ voronoi = NoEngine)

\* C10: the log starts with the header, written once at construction, and
\* holds one data row per committed Iterate(), the last one of the
\* temperature committed; rejections and rollbacks append nothing.
C10_OneRowPerCommit ==
    /\ Len(sa.statFile) = 1 + commits
    /\ sa.statFile[1] = Header
    /\ \A k \in 2..Len(sa.statFile) :
        \E temperature \in 0..sa.maxHeat : sa.statFile[k] = Row(temperature)
    /\ outcome = "commit" => sa.statFile[Len(sa.statFile)] = Row(sa.temperature)

\* a rejection after two commits: three records after three calls
C10_Witness ==
    /\ outcome = "reject"
    /\ commits = 2
    /\ calls = 3
    /\ Len(sa.statFile) = 3

\* C11: every round of Tessellate() increases the radius by exactly one, and
\* the active seeds are exhausted after at most W+H-1 rounds, coinciding
\* seeds included.
C11_RoundsBounded ==
    /\ [](/\ voronoi.radius <= voronoi.width + voronoi.height - 1
          /\ voronoi.radius = voronoi.width + voronoi.height - 1
                => Len(voronoi.activeSeeds) = 0)
    /\ [][outcome' \in {"tessellating", "tessellated"}
            => voronoi'.radius = voronoi.radius + 1]_vars

\* two coinciding seeds whose pass took W+H-1 rounds
C11_Witness ==
    /\ outcome = "tessellated"
    /\ voronoi.radius = voronoi.width + voronoi.height - 1
    /\ Len(voronoi.seeds) = 2
    /\ voronoi.seeds[1].X = voronoi.seeds[2].X
    /\ voronoi.seeds[1].Y = voronoi.seeds[2].Y

\* the round in which the ring of seed s holds pixel (x, y)
RingOf(x, y, s) == abs(x - s.X) + abs(y - s.Y)

\* the indices of the seeds nearest to pixel (x, y)
NearestSeeds(v, x, y) ==
    {k \in 1..Len(v.seeds) :
        \A j \in 1..Len(v.seeds) :
            SquaredDistance(x, y, v.seeds[k]) <= SquaredDistance(x, y, v.seeds[j])}

\* the nearest seed whose claim on (x, y) comes last: the latest round, and
\* within a round the latest position in the list
LastClaimant(v, x, y) ==
    CHOOSE k \in NearestSeeds(v, x, y) :
        \A j \in NearestSeeds(v, x, y) :
            \/ RingOf(x, y, v.seeds[j]) < RingOf(x, y, v.seeds[k])
            \/ RingOf(x, y, v.seeds[j]) = RingOf(x, y, v.seeds[k]) /\ j <= k

Orders(n) == {f \in [1..n -> 1..n] : \A i, j \in 1..n : f[i] = f[j] => i = j}

\* the engine holding the seeds of v in another order, before its pass:
\* as NewVoronoi leaves it when no Perturbate was called, as Perturbate
\* leaves it otherwise
Reordered(v, order) ==
    IF calls = 0
    THEN InitEngine(v.width, v.height, v.numSeeds, v.movementReductionFactor,
                    [k \in 1..Len(v.seeds) |->
                        <<v.seeds[order[k]].X, v.seeds[order[k]].Y>>])
    ELSE initTessellation(
            [v EXCEPT !.seeds = [k \in 1..Len(v.seeds) |-> v.seeds[order[k]]],
                      !.diagram = initDiagram(v.width, v.height)])

RecordedDistance(v, x, y) ==
    IF v.diagram[x][y] = Nil THEN Nil ELSE Deref(v.diagram[x][y]).Distance

RecordedColor(v, x, y) ==
    IF v.diagram[x][y] = Nil THEN Nil ELSE Deref(v.diagram[x][y]).Color

\* C13: the pass over the same seeds in any other order records the same
\* distance at every pixel, and the same colour at every pixel that does not
\* have two or more nearest seeds.
C13_OrderIndependent ==
    outcome = "tessellated" =>
        \A order \in Orders(Len(voronoi.seeds)) :
            \A other \in {Tessellate(Reordered(voronoi, order))} :
                \A x \in 0..(voronoi.width - 1), y \in 0..(voronoi.height - 1) :
                    /\ RecordedDistance(other, x, y)
                            = RecordedDistance(voronoi, x, y)
                    /\ Cardinality(NearestSeeds(voronoi, x, y)) < 2
                        => RecordedColor(other, x, y)
                                = RecordedColor(voronoi, x, y)

\* the two seeds are at (0,0) and (9,9), in either order, on the 10 x 10 grid
CornerSeeds(v) ==
    /\ v.width = 10 /\ v.height = 10
    /\ Len(v.seeds) = 2
    /\ \E a, b \in 1..2 :
        /\ a # b
        /\ v.seeds[a].X = 0 /\ v.seeds[a].Y = 0
        /\ v.seeds[b].X = 9 /\ v.seeds[b].Y = 9

\* the seed at position (x, y)
SeedAt(v, x, y) == CHOOSE k \in 1..Len(v.seeds) : v.seeds[k].X = x /\ v.seeds[k].Y = y

\* the seed whose ring reaches (x, y) last, nearest or not
LastRing(v, x, y) ==
    CHOOSE k \in 1..Len(v.seeds) :
        \A j \in 1..Len(v.seeds) :
            \/ RingOf(x, y, v.seeds[j]) < RingOf(x, y, v.seeds[k])
            \/ RingOf(x, y, v.seeds[j]) = RingOf(x, y, v.seeds[k]) /\ j <= k

\* C14 as stated: with seeds at (0,0) and (9,9) on a 10 x 10 grid, pixel
\* (4,4) is at squared distance 32 from both and after Tessellate() has the
\* colour of the seed whose ring reaches it last.
C14_CentreGoesToLastRing ==
    (outcome = "tessellated" /\ CornerSeeds(voronoi)) =>
        /\ \A k \in 1..2 : SquaredDistance(4, 4, voronoi.seeds[k]) = 32
        /\ RecordedColor(voronoi, 4, 4)
                = voronoi.seeds[LastRing(voronoi, 4, 4)].Color

\* C14: with seeds at (0,0) and (9,9) on a 10 x 10 grid, pixel (4,4) is at
\* squared distance 32 from (0,0) and 50 from (9,9) and after Tessellate()
\* records 32 and the colour of the seed at (0,0), in either order of the
\* seeds; pixel (4,5), at 41 from both, has the colour of the later seed.
C14_CentreGoesToNearest ==
    (outcome = "tessellated" /\ CornerSeeds(voronoi)) =>
        /\ SquaredDistance(4, 4, voronoi.seeds[SeedAt(voronoi, 0, 0)]) = 32
        /\ SquaredDistance(4, 4, voronoi.seeds[SeedAt(voronoi, 9, 9)]) = 50
        /\ RecordedDistance(voronoi, 4, 4) = Ptr(32)
        /\ RecordedColor(voronoi, 4, 4)
                = voronoi.seeds[SeedAt(voronoi, 0, 0)].Color
        /\ \A k \in 1..2 : SquaredDistance(4, 5, voronoi.seeds[k]) = 41
        /\ RecordedDistance(voronoi, 4, 5) = Ptr(41)
        /\ RecordedColor(voronoi, 4, 5) = voronoi.seeds[2].Color

\* the pass over (0,0) then (9,9), the two of different colours
C14_Witness ==
    /\ outcome = "tessellated"
    /\ CornerSeeds(voronoi)
    /\ voronoi.seeds[1].X = 0
    /\ voronoi.seeds[2].X = 9
    /\ voronoi.seeds[1].Color # voronoi.seeds[2].Color

\* the seed Perturbate(v, seedIndex, d) leaves at seedIndex has another position
Moved(v, seedIndex, d) ==
    \/ Perturbate(v, seedIndex, d).seeds[seedIndex + 1].X # v.seeds[seedIndex + 1].X
    \/ Perturbate(v, seedIndex, d).seeds[seedIndex + 1].Y # v.seeds[seedIndex + 1].Y

\* the seed Perturbate(v, seedIndex, d) leaves at seedIndex has another colour
Recoloured(v, seedIndex, d) ==
    Perturbate(v, seedIndex, d).seeds[seedIndex + 1].Color
        # v.seeds[seedIndex + 1].Color

\* C15: every Perturbate call applies a mutation kind to the selected seed,
\* position only, colour only, or both, and each of the three can occur.
C15_OneOfThreeKinds ==
    (Constructed /\ voronoi.width * voronoi.height > 1) =>
        \A seedIndex \in 0..(Len(voronoi.seeds) - 1) :
            /\ \A d \in Draws(voronoi, EngineTintMovements) :
                willPerturbateCoords(d.choice) \/ willPerturbateColor(d.choice)
            /\ \E d \in Draws(voronoi, EngineTintMovements) :
                Moved(voronoi, seedIndex, d) /\ ~Recoloured(voronoi, seedIndex, d)
            /\ \E d \in Draws(voronoi, EngineTintMovements) :
                ~Moved(voronoi, seedIndex, d) /\ Recoloured(voronoi, seedIndex, d)
            /\ \E d \in Draws(voronoi, EngineTintMovements) :
                Moved(voronoi, seedIndex, d) /\ Recoloured(voronoi, seedIndex, d)

\* the pass over the seeds of v as it runs after a Perturbate that leaves
\* them as they are: from the grid initDiagram clears
PassAfterPerturbate(v) ==
    Tessellate(initTessellation(
        [v EXCEPT !.diagram = initDiagram(v.width, v.height)]))

\* C16: the grid Tessellate() leaves depends on the seed sequence only: a
\* pass after construction and a pass after a Perturbate over equal seeds
\* leave every pixel with the same status, distance and colour.
C16_PassDependsOnSeedsOnly ==
    outcome = "tessellated" =>
        \A other \in {PassAfterPerturbate(voronoi)} :
            \A x \in 0..(voronoi.width - 1), y \in 0..(voronoi.height - 1) :
                /\ (other.diagram[x][y] = Nil) = (voronoi.diagram[x][y] = Nil)
                /\ RecordedDistance(other, x, y) = RecordedDistance(voronoi, x, y)
                /\ RecordedColor(other, x, y) = RecordedColor(voronoi, x, y)

\* C17: for a target and a rendered buffer of W*H*4 bytes the heat
\* computeTemperature sums lies in 0..4*255*W*H, so that the temperature
\* heat / maxHeat lies in [0,1], and it is 0 when the buffers are identical.
C17_HeatBounded ==
    /\ DOMAIN sa.targetImage.Bytes = 0..(voronoi.width * voronoi.height * 4 - 1)
    /\ DOMAIN ToPixels(voronoi) = DOMAIN sa.targetImage.Bytes
    /\ sa.maxHeat = 4 * 255 * voronoi.width * voronoi.height
    /\ computeTemperature(sa, voronoi) \in 0..sa.maxHeat
    /\ sa.temperature \in 0..sa.maxHeat
    /\ ToPixels(voronoi) = sa.targetImage.Bytes
            => computeTemperature(sa, voronoi) = 0

\* an Iterate() that rendered the target exactly and committed temperature 0
C17_Witness ==
    /\ outcome = "commit"
    /\ ToPixels(voronoi) = sa.targetImage.Bytes
    /\ sa.temperature = 0
    /\ sa.statFile[Len(sa.statFile)] = Row(0)

\* the candidate heats tried against the current temperature of s: the
\* extremes and the ones around it
Candidates(s) ==
    {0, s.maxHeat}
    \cup ((s.temperature - AcceptWindow)..(s.temperature + AcceptWindow)
            \cap 0..s.maxHeat)

\* C18: isAcceptableTemperature returns true for every temperature not
\* above the current one, whatever the random draw would be; only a
\* temperature strictly above the current one can be rejected.
C18_NotAboveIsAccepted ==
    \A temperature \in Candidates(sa) : \A rand \in Rands :
        /\ temperature <= sa.temperature
            => isAcceptableTemperature(sa, temperature, rand)
        /\ ~isAcceptableTemperature(sa, temperature, rand)
            => temperature > sa.temperature

\* a second commit at the best temperature: a temperature not above the
\* current one went through the acceptance test
C18_Witness ==
    /\ outcome = "commit"
    /\ commits >= 2
    /\ sa.temperature = sa.bestTemperature
    /\ sa.temperature > 0


\* a step that is one frame of the driver
Frame == calls' = calls + 1

\* a step that leaves the engines as Iterate() not being called leaves them
EnginesUntouched ==
    /\ voronoi' = voronoi
    /\ sa' = sa
    /\ commits' = commits

\* C19: a frame that leaves the driver paused does not run Iterate(); from
\* the frame that finds the elapsed time above simulationDuration on, every
\* frame returns SimulationCompleted and does not run Iterate(); and that
\* signal is never what a frame that ran Iterate() returns.
C19_PausedAndTimedOutFramesSkipIterate ==
    /\ [][(Frame /\ ~canvas'.gameRunning) => EnginesUntouched]_vars
    /\ [][(Frame /\ canvas.elapsed > canvas.simulationDuration)
            => /\ canvas'.elapsed > canvas'.simulationDuration
               /\ canvas'.returned = "SimulationCompleted"
               /\ EnginesUntouched]_vars
    /\ [][(Frame /\ canvas'.elapsed > canvas'.simulationDuration)
            => /\ canvas'.returned = "SimulationCompleted"
               /\ EnginesUntouched]_vars
    /\ [][(Frame /\ canvas'.returned = "SimulationCompleted")
            => /\ canvas'.elapsed > canvas'.simulationDuration
               /\ EnginesUntouched]_vars

\* a frame that committed, then a frame paused by the space key, then the
\* frame that timed out
C19_Witness ==
    /\ canvas.returned = "SimulationCompleted"
    /\ ~canvas.gameRunning
    /\ calls = 3
    /\ commits = 1


\* the writes the next round of the pass starts with: an active seed, a
\* vector of the next ring, and the pixel of the diagram it lands on
NextWrites(v) ==
    LET vectors == getIncrementalVectors(v.radius + 1)
    IN  {[seed |-> v.activeSeeds[k], dx |-> vectors[i][1], dy |-> vectors[i][2],
          x |-> v.activeSeeds[k].X + vectors[i][1],
          y |-> v.activeSeeds[k].Y + vectors[i][2]] :
            k \in 1..Len(v.activeSeeds), i \in 1..Len(vectors)}

InGrid(v, x, y) == x \in 0..(v.width - 1) /\ y \in 0..(v.height - 1)

\* the recorded distance of pixel (x, y) in a bare diagram
DistanceIn(diagram, x, y) ==
    IF diagram[x][y] = Nil THEN Nil ELSE Deref(diagram[x][y]).Distance

\* C20: within a pass, a write to a pixel that has a recorded distance stores
\* a distance no larger than the one it replaces, and a pixel that has a
\* recorded distance keeps having one: for every single write the next round
\* can start with, and for every whole round.
C20_WritesNeverIncrease ==
    /\ [](\A w \in NextWrites(voronoi) :
            InGrid(voronoi, w.x, w.y) =>
                LET old == RecordedDistance(voronoi, w.x, w.y)
                    distance == voronoi.distances[abs(w.dx)][abs(w.dy)]
                    r == assignPointToSeed(voronoi, voronoi.diagram, w.seed,
                                           distance, w.dx, w.dy)
                IN  \A x \in 0..(voronoi.width - 1),
                       y \in 0..(voronoi.height - 1) :
                        DistanceIn(voronoi.diagram, x, y) # Nil =>
                            /\ DistanceIn(r.diagram, x, y) # Nil
                            /\ Deref(DistanceIn(r.diagram, x, y))
                                 <= Deref(DistanceIn(voronoi.diagram, x, y))
                            /\ (r.assigned /\ x = w.x /\ y = w.y)
                                 => /\ Deref(DistanceIn(r.diagram, x, y))
                                         = distance
                                    /\ distance <= Deref(old))
    /\ [][outcome' \in {"tessellating", "tessellated"} =>
            \A x \in 0..(voronoi.width - 1), y \in 0..(voronoi.height - 1) :
                RecordedDistance(voronoi, x, y) # Nil =>
                    /\ RecordedDistance(voronoi', x, y) # Nil
                    /\ Deref(RecordedDistance(voronoi', x, y))
                         <= Deref(RecordedDistance(voronoi, x, y))]_vars

\* a pass under way in which the next round starts by replacing a recorded
\* distance with a strictly smaller one
C20_Witness ==
    /\ outcome = "tessellating"
    /\ \E w \in NextWrites(voronoi) :
        /\ InGrid(voronoi, w.x, w.y)
        /\ RecordedDistance(voronoi, w.x, w.y) # Nil
        /\ voronoi.distances[abs(w.dx)][abs(w.dy)]
             < Deref(RecordedDistance(voronoi, w.x, w.y))
        /\ assignPointToSeed(voronoi, voronoi.diagram, w.seed,
                             voronoi.distances[abs(w.dx)][abs(w.dy)],
                             w.dx, w.dy).assigned


\* the least element of a non-empty set of integers
Minimum(S) == CHOOSE m \in S : \A n \in S : m <= n

\* the temperatures of the committed iterations, as logged in statFile
CommittedTemperatures(s) ==
    {s.statFile[i].temperature : i \in 2..Len(s.statFile)}

\* C21: an Iterate() that commits sets temperature to the temperature of the
\* tessellation it computed, and replaces bestTemperature and bestSolution
\* (by the seeds of the engine) exactly when that temperature is below
\* bestTemperature; bestTemperature never increases and is the least of the
\* initial temperature and the committed ones.
C21_BestTracksMinimum ==
    /\ [][(calls' = calls + 1 /\ outcome' = "commit") =>
            /\ sa'.temperature = computeTemperature(sa, voronoi')
            /\ IF sa'.temperature < sa.bestTemperature
               THEN /\ sa'.bestTemperature = sa'.temperature
                    /\ sa'.bestSolution = GetSeeds(voronoi')
               ELSE /\ sa'.bestTemperature = sa.bestTemperature
                    /\ sa'.bestSolution = sa.bestSolution]_vars
    /\ [][sa'.bestTemperature <= sa.bestTemperature]_vars
    /\ [](sa.bestTemperature
            = Minimum({sa.maxHeat} \cup CommittedTemperatures(sa)))

\* a commit above the best temperature, which left the best solution alone
C21_Witness ==
    /\ outcome = "commit"
    /\ commits >= 2
    /\ sa.temperature > sa.bestTemperature
    /\ sa.bestSolution # GetSeeds(voronoi)


\* C22: Perturbate() leaves the seeds of the engine as many as they were and
\* different from what they were at one index at most, and leaves every
\* array a caller holds through GetSeeds() as it was.
C22_PerturbateChangesOneSeed ==
    [][(calls' = calls + 1 /\ outcome' = "perturbed") =>
        /\ Len(voronoi'.seeds) = Len(voronoi.seeds)
        /\ Cardinality({k \in 1..Len(voronoi.seeds) :
                            voronoi'.seeds[k] # voronoi.seeds[k]}) <= 1
        /\ voronoi'.seeds = heap'.arrays[heap'.seeds]
        /\ \A ref \in heap.held :
            /\ ref \in heap'.held
            /\ heap'.arrays[ref] = heap.arrays[ref]]_vars

\* a Perturbate() of seeds a caller holds, which changed the second of two
\* seeds of the engine
C22_Witness ==
    /\ outcome = "perturbed"
    /\ Len(voronoi.seeds) = 2
    /\ \E ref \in heap.held :
        /\ heap.arrays[ref][1] = voronoi.seeds[1]
        /\ heap.arrays[ref][2] # voronoi.seeds[2]
        /\ heap.arrays[ref][2].Color # voronoi.seeds[2].Color


\* the vectors Tessellate() looks up in the distance table in its next round
NextLookups(v) ==
    IF Len(v.activeSeeds) = 0 THEN {}
    ELSE LET vectors == getIncrementalVectors(v.radius + 1)
         IN  {vectors[i] : i \in 1..Len(vectors)}

\* C23: the distance table has 3W+H rows and columns; every vector the next
\* round of Tessellate() looks up has |dx| and |dy| inside the table, where
\* it finds dx^2 + dy^2; an attempt on a pixel outside the grid leaves the
\* diagram alone, and the diagram keeps its W columns of H cells.
C23_LookupsInsideTable ==
    /\ DOMAIN voronoi.distances = 0..(3 * voronoi.width + voronoi.height - 1)
    /\ \A vec \in NextLookups(voronoi) :
        /\ abs(vec[1]) \in DOMAIN voronoi.distances
        /\ abs(vec[2]) \in DOMAIN voronoi.distances[abs(vec[1])]
        /\ voronoi.distances[abs(vec[1])][abs(vec[2])]
             = vec[1] * vec[1] + vec[2] * vec[2]
    /\ \A w \in NextWrites(voronoi) :
        ~InGrid(voronoi, w.x, w.y) =>
            assignPointToSeed(voronoi, voronoi.diagram, w.seed,
                              voronoi.distances[abs(w.dx)][abs(w.dy)],
                              w.dx, w.dy)
                = [diagram |-> voronoi.diagram, assigned |-> FALSE]
    /\ DOMAIN voronoi.diagram = 0..(voronoi.width - 1)
    /\ \A i \in DOMAIN voronoi.diagram :
        DOMAIN voronoi.diagram[i] = 0..(voronoi.height - 1)

\* the end of a pass over a grid higher than wide whose last round looked up
\* the ring of radius W+H-1
C23_Witness ==
    /\ outcome = "tessellated"
    /\ voronoi.width < voronoi.height
    /\ voronoi.radius = voronoi.width + voronoi.height - 1


\* the candidate heats tried against the drift test of s: the ones tried
\* against the current temperature, and the ones around the threshold
DriftCandidates(s) ==
    Candidates(s)
    \cup ((((11 * s.bestTemperature) \div 10) - AcceptWindow)
            ..(((11 * s.bestTemperature) \div 10) + AcceptWindow)
            \cap 0..s.maxHeat)

\* C24: after every Iterate() that returns nil (and before the first one)
\* bestTemperature <= temperature and temperature - bestTemperature is at
\* most a tenth of bestTemperature; from such a state an Iterate() ends
\* with a rollback only for a new temperature above the current one.
C24_DriftStaysWithinTenth ==
    outcome # "ioerror" =>
        /\ sa.bestTemperature <= sa.temperature
        /\ 10 * (sa.temperature - sa.bestTemperature) <= sa.bestTemperature
        /\ \A newTemperature \in DriftCandidates(sa) : \A rand \in Rands :
            Iterate(GetSeeds(voronoi), sa, voronoi, newTemperature,
                    rand, TRUE).outcome = "rollback"
                => newTemperature > sa.temperature

\* a commit that left the temperature above the best one, from where a small
\* rise of the temperature ends in a rollback
C24_Witness ==
    /\ outcome = "commit"
    /\ sa.temperature > sa.bestTemperature
    /\ \E newTemperature \in DriftCandidates(sa) :
        /\ newTemperature > sa.temperature
        /\ Iterate(GetSeeds(voronoi), sa, voronoi, newTemperature,
                   "greatest", TRUE).outcome = "rollback"


\* C25: bestSolution is unset (nil) only while bestTemperature is the
\* initial one, and then the drift test fails for every temperature from 0
\* to 1; no Iterate() takes the rollback with bestSolution unset, and the
\* engine holds numSeeds seeds in every state.
C25_NoRollbackToUnsetBest ==
    /\ [](sa.bestSolution = <<>> =>
            /\ sa.bestTemperature = sa.maxHeat
            /\ \A newTemperature \in 0..sa.maxHeat :
                ~DriftExceeded(sa, newTemperature))
    /\ [][(calls' = calls + 1 /\ outcome' = "rollback")
            => sa.bestSolution # <<>>]_vars
    /\ [](Len(voronoi.seeds) = voronoi.numSeeds)

\* the first Iterate(): it went through the drift test with bestSolution
\* unset, committed and set it
C25_Witness ==
    /\ calls = 1
    /\ outcome = "commit"
    /\ sa.bestSolution = GetSeeds(voronoi)
    /\ Len(sa.bestSolution) = voronoi.numSeeds


\* C26: after Tessellate() every pixel that is not the position of a seed
\* has a recorded distance.
C26_NoUnclaimedPixel ==
    outcome = "tessellated" =>
        \A x \in 0..(voronoi.width - 1), y \in 0..(voronoi.height - 1) :
            ~IsSeedPosition(voronoi, x, y)
                => RecordedDistance(voronoi, x, y) # Nil

\* the end of a pass in which a seed went inactive before it reached a pixel
\* it is the nearest seed of, and another seed claimed that pixel
C26_Witness ==
    /\ outcome = "tessellated"
    /\ \E x \in 0..(voronoi.width - 1), y \in 0..(voronoi.height - 1) :
        /\ ~IsSeedPosition(voronoi, x, y)
        /\ RecordedDistance(voronoi, x, y) # Nil
        /\ ~NearestRecorded(voronoi, x, y)


\* C27: after every Iterate() that returns nil, temperature is the heat of
\* the rendering of the tessellation of the seeds the engine holds, computed
\* anew from those seeds; and the first Iterate() commits unless its write to
\* statFile fails.
C27_TemperatureIsScoreOfSeeds ==
    /\ outcome \in {"commit", "reject", "rollback"} =>
        sa.temperature = Heat(sa.targetImage.Bytes, Rendering(voronoi), 0)
    /\ calls = 1 => outcome \in {"commit", "ioerror"}

\* a rejection or a rollback after which the diagram the engine still holds
\* has another heat than the tessellation of the restored seeds
C27_Witness ==
    /\ outcome \in {"reject", "rollback"}
    /\ computeTemperature(sa, voronoi) # sa.temperature
    /\ sa.temperature = Heat(sa.targetImage.Bytes, Rendering(voronoi), 0)

====
